---- MODULE Spec2Model ----
(***************************************************************************)
(* Hill climbing (standard and stochastic) of hillclimbing.py.             *)
(*                                                                         *)
(* hc     one run of HillClimbing.executar: the configuration of the run,  *)
(*        the locals of executar and the position of the run: pc is        *)
(*        "while" at the test of l.74, "fim_iteracao" after l.118 and      *)
(*        "return" after l.124.                                            *)
(* padrao a second run, in standard mode, fed the same neighbour sets as   *)
(*        hc (used by SpecPar only).                                       *)
(* ger    the arguments and the result of the last call of                 *)
(*        gerar_vizinhos_knapsack (used by SpecGerador only).              *)
(*                                                                         *)
(* The engine never looks inside a solution: it copies it (l.64, l.106),   *)
(* hands it to funcao_fitness (l.65, l.85) and to gerar_vizinhos (l.78).   *)
(* For the engine a solution is therefore an opaque value of Solucoes and  *)
(* the injected generator may return any list of solutions.  The knapsack  *)
(* generator works on bit vectors and is modelled on bit vectors.          *)
(***************************************************************************)
EXTENDS Integers, Sequences, FiniteSets, TLC

VARIABLES hc, padrao, ger

vars == <<hc, padrao, ger>>

\* ------------------------------------------------------------------ bounds

\* Number of distinct solutions the engine can meet.
NSol == 3
\* Longest neighbour list the injected generator returns.
MaxVizinhos == 3
\* Largest max_iteracoes.
MaxIter == 2
\* random.random() and probabilidade_pior are multiples of 1/ProbDen.
ProbDen == 2
\* Longest solution handed to gerar_vizinhos_knapsack.
MaxItens == 3
\* Largest n_vizinhos handed to gerar_vizinhos_knapsack.
MaxPedidos == 3

\* ------------------------------------------------------------ engine: data

Solucoes == 1..NSol

\* melhor_vizinho = None (l.81).
Nenhum == 0

\* The injected fitness functions the runs are checked with: all values
\* distinct, values with ties, all values equal.
FuncoesFitness == {"identidade", "metade", "constante"}

\* self.funcao_fitness(s): deterministic, a function of the solution alone.
Fitness(f, s) ==
    CASE f = "identidade" -> s
      [] f = "metade"     -> s \div 2
      [] f = "constante"  -> 0

\* probabilidade_pior: 0.0, 1/ProbDen and 1.0, in units of 1/ProbDen.
Probabilidades == {0, 1, ProbDen}

\* random.random() is in [0.0, 1.0): 0 .. ProbDen-1 in units of 1/ProbDen.
Sorteios == 0..(ProbDen - 1)

\* self.gerar_vizinhos(solucao_atual) (l.78): any list of solutions.
Vizinhancas == UNION {[1..n -> Solucoes] : n \in 0..MaxVizinhos}

\* State of a run right after l.64-69.
Inicio(f, maxim, est, prob, maxit, s0) ==
    [funcao_fitness |-> f, maximizar |-> maxim, estocastico |-> est,
     probabilidade_pior |-> prob, max_iteracoes |-> maxit,
     solucao_atual |-> s0,
     fitness_atual |-> Fitness(f, s0),
     historico |-> <<Fitness(f, s0)>>,
     iteracao |-> 0,
     melhorias |-> 0,
     vizinhos |-> <<>>,
     melhor_vizinho |-> Nenhum,
     melhor_fitness_vizinho |-> Fitness(f, s0),
     avaliados |-> 0,
     sorteios |-> <<>>,
     convergiu |-> FALSE,
     vazio |-> FALSE,
     pc |-> "while"]

\* ------------------------------------------------------- engine: one scan

\* eh_melhor (l.88-92), with >= and <= in place of > and <.
EhMelhorNaoEstrito(fitness_vizinho, melhor_fitness_vizinho, maximizar) ==
    IF maximizar THEN fitness_vizinho >= melhor_fitness_vizinho
                 ELSE fitness_vizinho =< melhor_fitness_vizinho

\* eh_melhor (l.88-92), with the two directions exchanged.
EhMelhorInvertido(fitness_vizinho, melhor_fitness_vizinho, maximizar) ==
    IF maximizar THEN fitness_vizinho < melhor_fitness_vizinho
                 ELSE fitness_vizinho > melhor_fitness_vizinho

\* eh_melhor (l.88-92).
EhMelhor(fitness_vizinho, melhor_fitness_vizinho, maximizar) ==
    IF maximizar THEN fitness_vizinho > melhor_fitness_vizinho
                 ELSE fitness_vizinho < melhor_fitness_vizinho

\* l.97 with the test of the draw turned around.
AceitaPiorInvertido(estocastico, sorteio, probabilidade_pior) ==
    estocastico /\ sorteio > probabilidade_pior

\* l.97 with <= in place of <.
AceitaPiorInclusivo(estocastico, sorteio, probabilidade_pior) ==
    estocastico /\ sorteio =< probabilidade_pior

\* The condition of the elif of l.97, once random.random() returned sorteio.
AceitaPior(estocastico, sorteio, probabilidade_pior) ==
    estocastico /\ sorteio < probabilidade_pior

\* l.81-82 with melhor_fitness_vizinho starting below (above, when minimizing)
\* every fitness instead of at fitness_atual.
InicioAvaliacaoSemBase(e) ==
    [melhor_vizinho |-> Nenhum,
     melhor_fitness_vizinho |-> IF e.maximizar THEN -1 ELSE NSol + 1,
     avaliados |-> 0,
     sorteios |-> <<>>]

\* The locals of the scan as l.81-82 set them.
InicioAvaliacao(e) ==
    [melhor_vizinho |-> Nenhum,
     melhor_fitness_vizinho |-> e.fitness_atual,
     avaliados |-> 0,
     sorteios |-> <<>>]

\* l.84-101 without the break of l.101: the scan goes on after a worse
\* neighbour is accepted.
RECURSIVE AvaliarSemBreak(_, _, _, _)
AvaliarSemBreak(e, viz, i, st) ==
    IF i > Len(viz) THEN {st}
    ELSE
      LET fitness_vizinho == Fitness(e.funcao_fitness, viz[i])
          visto == [st EXCEPT !.avaliados = @ + 1]
          aceito == [visto EXCEPT !.melhor_vizinho = viz[i],
                                  !.melhor_fitness_vizinho = fitness_vizinho]
      IN IF EhMelhor(fitness_vizinho, st.melhor_fitness_vizinho, e.maximizar)
         THEN AvaliarSemBreak(e, viz, i + 1, aceito)
         ELSE IF ~e.estocastico
         THEN AvaliarSemBreak(e, viz, i + 1, visto)
         ELSE UNION {
                LET abaixo == d < e.probabilidade_pior
                    sorteado == [IF AceitaPior(e.estocastico, d, e.probabilidade_pior)
                                 THEN aceito ELSE visto
                                   EXCEPT !.sorteios = Append(@, abaixo)]
                IN AvaliarSemBreak(e, viz, i + 1, sorteado)
                : d \in Sorteios}

\* The for loop of l.84-101 from neighbour i on: the set of the states of the
\* scan's locals it can end in, one per outcome of the random draws.  A draw is
\* made only where the code makes one: estocastico is tested first (l.97).
\* avaliados counts the calls of funcao_fitness (l.85); sorteios tells of each
\* value random.random() returned, in the order of the calls, whether it was
\* below probabilidade_pior.
RECURSIVE Avaliar(_, _, _, _)
Avaliar(e, viz, i, st) ==
    IF i > Len(viz) THEN {st}
    ELSE
      LET fitness_vizinho == Fitness(e.funcao_fitness, viz[i])
          visto == [st EXCEPT !.avaliados = @ + 1]
      IN IF EhMelhor(fitness_vizinho, st.melhor_fitness_vizinho, e.maximizar)
         THEN Avaliar(e, viz, i + 1,
                      [visto EXCEPT !.melhor_vizinho = viz[i],
                                    !.melhor_fitness_vizinho = fitness_vizinho])
         ELSE IF ~e.estocastico
         THEN Avaliar(e, viz, i + 1, visto)
         ELSE UNION {
                LET sorteado == [visto EXCEPT !.sorteios =
                                     Append(@, d < e.probabilidade_pior)]
                IN IF AceitaPior(e.estocastico, d, e.probabilidade_pior)
                   THEN {[sorteado EXCEPT !.melhor_vizinho = viz[i],
                                          !.melhor_fitness_vizinho = fitness_vizinho]}
                   ELSE Avaliar(e, viz, i + 1, sorteado)
                : d \in Sorteios}

\* ---------------------------------------------- engine: one loop iteration

\* l.105-118 with the append of l.118 left out.
MoverSemHistorico(e, viz, r) ==
    [e EXCEPT !.iteracao = @ + 1,
              !.vizinhos = viz,
              !.melhor_vizinho = r.melhor_vizinho,
              !.melhor_fitness_vizinho = r.melhor_fitness_vizinho,
              !.avaliados = r.avaliados,
              !.sorteios = r.sorteios,
              !.vazio = @ \/ viz = <<>>,
              !.solucao_atual = r.melhor_vizinho,
              !.fitness_atual = r.melhor_fitness_vizinho,
              !.melhorias = @ + 1,
              !.pc = "fim_iteracao"]

\* l.105-118 with the iteracao += 1 of l.75 left out.
MoverSemContar(e, viz, r) ==
    [e EXCEPT !.vizinhos = viz,
              !.melhor_vizinho = r.melhor_vizinho,
              !.melhor_fitness_vizinho = r.melhor_fitness_vizinho,
              !.avaliados = r.avaliados,
              !.sorteios = r.sorteios,
              !.vazio = @ \/ viz = <<>>,
              !.solucao_atual = r.melhor_vizinho,
              !.fitness_atual = r.melhor_fitness_vizinho,
              !.melhorias = @ + 1,
              !.historico = Append(@, r.melhor_fitness_vizinho),
              !.pc = "fim_iteracao"]

\* l.75 and l.105-108, l.118: melhor_vizinho is not None, the run moves to it.
Mover(e, viz, r) ==
    [e EXCEPT !.iteracao = @ + 1,
              !.vizinhos = viz,
              !.melhor_vizinho = r.melhor_vizinho,
              !.melhor_fitness_vizinho = r.melhor_fitness_vizinho,
              !.avaliados = r.avaliados,
              !.sorteios = r.sorteios,
              !.vazio = @ \/ viz = <<>>,
              !.solucao_atual = r.melhor_vizinho,
              !.fitness_atual = r.melhor_fitness_vizinho,
              !.melhorias = @ + 1,
              !.historico = Append(@, r.melhor_fitness_vizinho),
              !.pc = "fim_iteracao"]

\* l.75 and l.112-116, l.124: melhor_vizinho is None, the loop is left by the
\* break and executar returns.
Convergir(e, viz, r) ==
    [e EXCEPT !.iteracao = @ + 1,
              !.vizinhos = viz,
              !.melhor_vizinho = r.melhor_vizinho,
              !.melhor_fitness_vizinho = r.melhor_fitness_vizinho,
              !.avaliados = r.avaliados,
              !.sorteios = r.sorteios,
              !.vazio = @ \/ viz = <<>>,
              !.convergiu = TRUE,
              !.pc = "return"]

\* The body of the while loop (l.75-118) when gerar_vizinhos returns viz: the
\* set of the states the run can be in after it.
Iteracoes(e, viz) ==
    {IF r.melhor_vizinho # Nenhum THEN Mover(e, viz, r) ELSE Convergir(e, viz, r)
       : r \in Avaliar(e, viz, 1, InicioAvaliacao(e))}

\* l.74 false, l.124: the iteration cap is reached and executar returns.
Retorno(e) == [e EXCEPT !.pc = "return"]

\* From the end of the loop body (l.118) back to the test of l.74.  The locals
\* of the scan are dead there: l.78-82 overwrite vizinhos, melhor_vizinho and
\* melhor_fitness_vizinho before anything reads them, so they are put back to
\* the values Inicio gives them.
Repeticao(e) ==
    [e EXCEPT !.vizinhos = <<>>,
              !.melhor_vizinho = Nenhum,
              !.melhor_fitness_vizinho = e.fitness_atual,
              !.avaliados = 0,
              !.sorteios = <<>>,
              !.pc = "while"]

\* ------------------------------------------------------------ Spec: a run

Configuracoes ==
    {Inicio(f, maxim, est, prob, maxit, s0) :
        f \in FuncoesFitness, maxim \in BOOLEAN, est \in BOOLEAN,
        prob \in Probabilidades, maxit \in 0..MaxIter, s0 \in Solucoes}

Init ==
    /\ hc \in Configuracoes
    /\ padrao = <<>>
    /\ ger = <<>>

Iterar ==
    /\ hc.pc = "while"
    /\ hc.iteracao < hc.max_iteracoes
    /\ \E viz \in Vizinhancas : hc' \in Iteracoes(hc, viz)
    /\ UNCHANGED <<padrao, ger>>

Repetir ==
    /\ hc.pc = "fim_iteracao"
    /\ hc' = Repeticao(hc)
    /\ UNCHANGED <<padrao, ger>>

Retornar ==
    /\ hc.pc = "while"
    /\ ~(hc.iteracao < hc.max_iteracoes)
    /\ hc' = Retorno(hc)
    /\ UNCHANGED <<padrao, ger>>

Next == Iterar \/ Repetir \/ Retornar

Spec == Init /\ [][Next]_vars

\* -------------------------------------------- gerar_vizinhos_knapsack

\* The binary solutions of n_itens items.
Binarias(n_itens) == [1..n_itens -> {0, 1}]

\* l.25 looking at the last used position only.
PosicaoUsadaUltima(sorted_pos, pos) ==
    sorted_pos # <<>> /\ sorted_pos[Len(sorted_pos)] = pos

\* pos in sorted_pos (l.25).
PosicaoUsada(sorted_pos, pos) ==
    \E k \in 1..Len(sorted_pos) : sorted_pos[k] = pos

\* l.28-29: a copy of solucao with the bit at pos flipped.  pos counts from 0,
\* as random.randint(0, n_itens - 1) does.
Flip(solucao, pos) == [solucao EXCEPT ![pos + 1] = 1 - @]

\* The for loop of l.22-31 from iteration i on.  rnd[i] is the value
\* random.randint returns in iteration i; acc holds vizinhos and sorted_pos.
RECURSIVE GerarDesde(_, _, _, _)
GerarDesde(solucao, rnd, i, acc) ==
    IF i > Len(rnd) THEN acc
    ELSE IF PosicaoUsada(acc.sorted_pos, rnd[i])
         THEN GerarDesde(solucao, rnd, i + 1, acc)
         ELSE GerarDesde(solucao, rnd, i + 1,
                         [vizinhos |-> Append(acc.vizinhos, Flip(solucao, rnd[i])),
                          sorted_pos |-> Append(acc.sorted_pos, rnd[i])])

\* gerar_vizinhos_knapsack(solucao, n_vizinhos) (l.17-33) when the n_vizinhos
\* calls of random.randint return rnd.
GerarVizinhosKnapsack(solucao, n_vizinhos, rnd) ==
    LET fim == GerarDesde(solucao, rnd, 1, [vizinhos |-> <<>>, sorted_pos |-> <<>>])
    IN [solucao |-> solucao,
        n_vizinhos |-> n_vizinhos,
        sorteados |-> rnd,
        vizinhos |-> fim.vizinhos,
        sorted_pos |-> fim.sorted_pos,
        chamado |-> TRUE]

InitGerador ==
    /\ hc = <<>>
    /\ padrao = <<>>
    /\ \E n_itens \in 1..MaxItens :
         \E solucao \in Binarias(n_itens) :
            ger = [solucao |-> solucao, n_vizinhos |-> 0, sorteados |-> <<>>,
                   vizinhos |-> <<>>, sorted_pos |-> <<>>, chamado |-> FALSE]

Gerar ==
    /\ \E n_vizinhos \in 0..MaxPedidos :
         \E rnd \in [1..n_vizinhos -> 0..(Len(ger.solucao) - 1)] :
            ger' = GerarVizinhosKnapsack(ger.solucao, n_vizinhos, rnd)
    /\ UNCHANGED <<hc, padrao>>

SpecGerador == InitGerador /\ [][Gerar]_vars

\* ------------------------------ SpecPar: stochastic p = 0.0 beside standard

\* hc runs with estocastico=True and probabilidade_pior=0.0, padrao with
\* estocastico=False; everything else is the same, and in each iteration both
\* are handed the same neighbour list.
InitPar ==
    /\ hc \in {c \in Configuracoes : c.estocastico /\ c.probabilidade_pior = 0}
    /\ padrao = [hc EXCEPT !.estocastico = FALSE]
    /\ ger = <<>>

ParIterar ==
    /\ hc.pc = "while" /\ hc.iteracao < hc.max_iteracoes
    /\ padrao.pc = "while" /\ padrao.iteracao < padrao.max_iteracoes
    /\ \E viz \in Vizinhancas :
          /\ hc' \in Iteracoes(hc, viz)
          /\ padrao' \in Iteracoes(padrao, viz)
    /\ UNCHANGED ger

ParRepetir ==
    /\ hc.pc = "fim_iteracao"
    /\ padrao.pc = "fim_iteracao"
    /\ hc' = Repeticao(hc)
    /\ padrao' = Repeticao(padrao)
    /\ UNCHANGED ger

ParRetornar ==
    /\ hc.pc = "while" /\ ~(hc.iteracao < hc.max_iteracoes)
    /\ padrao.pc = "while" /\ ~(padrao.iteracao < padrao.max_iteracoes)
    /\ hc' = Retorno(hc)
    /\ padrao' = Retorno(padrao)
    /\ UNCHANGED ger

NextPar == ParIterar \/ ParRepetir \/ ParRetornar

SpecPar == InitPar /\ [][NextPar]_vars

\* ------------------------------------------------------------- properties

\* a is strictly better than b under the direction of the run.
EstritamenteMelhor(a, b, maximizar) == IF maximizar THEN a > b ELSE a < b

\* The fitness of the neighbours of the list viz, in scan order.
FitnessDe(e, viz) == [k \in 1..Len(viz) |-> Fitness(e.funcao_fitness, viz[k])]

\* The best of the fitness fitness_atual and of the first k entries of fs.
MelhorAte(fitness_atual, fs, k, maximizar) ==
    LET vistos == {fitness_atual} \cup {fs[j] : j \in 1..k}
    IN CHOOSE m \in vistos : \A x \in vistos : ~EstritamenteMelhor(x, m, maximizar)

\* The step is one pass through the body of the while loop.
Iterou == hc.pc = "while" /\ hc'.iteracao = hc.iteracao + 1

Ultimo(seq) == seq[Len(seq)]

\* C1: in standard mode every entry of the history is >= the entry before it
\* when maximizing, and <= the entry before it when minimizing.
C1_HistoricoMonotono ==
    ~hc.estocastico =>
        \A i \in 1..(Len(hc.historico) - 1) :
            IF hc.maximizar THEN hc.historico[i + 1] >= hc.historico[i]
                            ELSE hc.historico[i + 1] =< hc.historico[i]

\* A standard run that minimizes has returned after two moves.
C1_Witness ==
    /\ ~hc.estocastico /\ ~hc.maximizar
    /\ hc.pc = "return"
    /\ Len(hc.historico) >= 3

\* An upper bound of the number of steps the run has left: two for each
\* iteration the cap still allows, and the step that returns.
PassosRestantes(e) ==
    CASE e.pc = "return"       -> 0
      [] e.pc = "while"        -> 2 * (e.max_iteracoes - e.iteracao) + 1
      [] e.pc = "fim_iteracao" -> 2 * (e.max_iteracoes - e.iteracao) + 2

\* C2: the history always has between 1 and max_iteracoes + 1 entries, and
\* executar terminates: a run that has not returned can take a step, and every
\* step takes the run closer to its return (PassosRestantes is a natural
\* number that every step makes smaller).
C2_HistoricoLimitado ==
    /\ [](/\ Len(hc.historico) >= 1
          /\ Len(hc.historico) =< hc.max_iteracoes + 1
          /\ PassosRestantes(hc) >= 0
          /\ hc.pc # "return" => ENABLED Next)
    /\ [][PassosRestantes(hc') < PassosRestantes(hc)]_vars

\* A run has returned at the iteration cap with max_iteracoes + 1 entries.
C2_Witness ==
    /\ hc.pc = "return"
    /\ ~hc.convergiu
    /\ hc.max_iteracoes >= 2
    /\ Len(hc.historico) = hc.max_iteracoes + 1

\* The positions in which the vectors a and b differ.
Diferencas(a, b) == {p \in 1..Len(a) : a[p] # b[p]}

\* C3: every neighbour gerar_vizinhos_knapsack returns has the length of the
\* solution and differs from it in exactly one position, where it holds the
\* flipped bit; no two neighbours of the call differ from the solution in the
\* same position; there are at most n_vizinhos neighbours.
C3_VizinhosUmBit ==
    ger.chamado =>
        /\ Len(ger.vizinhos) =< ger.n_vizinhos
        /\ \A k \in 1..Len(ger.vizinhos) :
              /\ Len(ger.vizinhos[k]) = Len(ger.solucao)
              /\ Cardinality(Diferencas(ger.vizinhos[k], ger.solucao)) = 1
              /\ \A p \in Diferencas(ger.vizinhos[k], ger.solucao) :
                    ger.vizinhos[k][p] = 1 - ger.solucao[p]
        /\ \A j, k \in 1..Len(ger.vizinhos) :
              j # k => Diferencas(ger.vizinhos[j], ger.solucao)
                         # Diferencas(ger.vizinhos[k], ger.solucao)

\* A call drew a position twice and returned two neighbours, fewer than asked.
C3_Witness ==
    /\ ger.chamado
    /\ Len(ger.vizinhos) >= 2
    /\ Len(ger.vizinhos) < ger.n_vizinhos

\* C4: at the test of the while loop and at return, fitness_atual is the last
\* entry of the history and the fitness of solucao_atual.
C4_FitnessUltimoHistorico ==
    hc.pc \in {"while", "return"} =>
        /\ hc.fitness_atual = Ultimo(hc.historico)
        /\ hc.fitness_atual = Fitness(hc.funcao_fitness, hc.solucao_atual)

\* A stochastic run is back at the test of the loop after a move that made
\* the fitness worse.
C4_Witness ==
    /\ hc.pc = "while"
    /\ hc.estocastico
    /\ Len(hc.historico) >= 2
    /\ EstritamenteMelhor(hc.historico[Len(hc.historico) - 1],
                          Ultimo(hc.historico), hc.maximizar)

\* C5 as stated: in stochastic mode with probabilidade_pior = 1.0 an iteration
\* with a non-empty neighbour list moves to the first neighbour of the list.
C5_MovePrimeiroVizinho ==
    [][(/\ Iterou
        /\ hc.estocastico
        /\ hc.probabilidade_pior = ProbDen
        /\ hc'.vizinhos # <<>>)
       => /\ hc'.pc = "fim_iteracao"
          /\ hc'.solucao_atual = hc'.vizinhos[1]
          /\ hc'.fitness_atual = Fitness(hc.funcao_fitness, hc'.vizinhos[1])]_vars

\* With probabilidade_pior = 1.0 the scan stops at the first neighbour that is
\* not strictly better than the one scanned before it (than fitness_atual for
\* the first neighbour), and at the last neighbour when there is none.
AlvoCerto(fitness_atual, fs, maximizar) ==
    LET anterior(k) == IF k = 1 THEN fitness_atual ELSE fs[k - 1]
        param == {k \in 1..Len(fs) : ~EstritamenteMelhor(fs[k], anterior(k), maximizar)}
    IN IF param = {} THEN Len(fs)
       ELSE CHOOSE k \in param : \A j \in param : k =< j

\* C5, amended: in stochastic mode with probabilidade_pior = 1.0 an iteration
\* with a non-empty neighbour list always moves, to the neighbour AlvoCerto
\* names: the first neighbour when it is not strictly better than
\* fitness_atual, a later one when it is.
C5_MoveAlvoCerto ==
    [][(/\ Iterou
        /\ hc.estocastico
        /\ hc.probabilidade_pior = ProbDen
        /\ hc'.vizinhos # <<>>)
       => LET fs == FitnessDe(hc, hc'.vizinhos)
              k == AlvoCerto(hc.fitness_atual, fs, hc.maximizar)
          IN /\ hc'.pc = "fim_iteracao"
             /\ hc'.avaliados = k
             /\ hc'.solucao_atual = hc'.vizinhos[k]
             /\ hc'.fitness_atual = fs[k]]_vars

\* With probabilidade_pior = 1.0 the first neighbour was strictly better than
\* the fitness before the move and the run moved to another neighbour.
C5_Witness ==
    /\ hc.pc = "fim_iteracao"
    /\ hc.estocastico
    /\ hc.probabilidade_pior = ProbDen
    /\ Len(hc.vizinhos) >= 2
    /\ EstritamenteMelhor(Fitness(hc.funcao_fitness, hc.vizinhos[1]),
                          hc.historico[Len(hc.historico) - 1], hc.maximizar)
    /\ hc.avaliados >= 2
    /\ hc.solucao_atual # hc.vizinhos[1]

\* C6: in stochastic mode with probabilidade_pior = 1.0, as long as the
\* generator has returned no empty list, the run has not left the loop by the
\* break, and when it has returned the history has max_iteracoes + 1 entries.
C6_SoParaNoLimite ==
    (hc.estocastico /\ hc.probabilidade_pior = ProbDen /\ ~hc.vazio) =>
        /\ ~hc.convergiu
        /\ hc.pc = "return" => Len(hc.historico) = hc.max_iteracoes + 1

\* Such a run has returned after two iterations or more, the last move to a
\* neighbour that is not better.
C6_Witness ==
    /\ hc.estocastico /\ hc.probabilidade_pior = ProbDen /\ ~hc.vazio
    /\ hc.pc = "return"
    /\ hc.max_iteracoes >= 2
    /\ Len(hc.historico) = hc.max_iteracoes + 1
    /\ ~EstritamenteMelhor(Ultimo(hc.historico),
                           hc.historico[Len(hc.historico) - 1], hc.maximizar)

\* C7: the stochastic run with probabilidade_pior = 0.0 and the standard run
\* fed the same neighbour lists are at the same place with the same solution,
\* the same fitness and the same history; so they return the same.
C7_ProbZeroIgualPadrao ==
    /\ hc.pc = padrao.pc
    /\ hc.solucao_atual = padrao.solucao_atual
    /\ hc.fitness_atual = padrao.fitness_atual
    /\ hc.historico = padrao.historico
    /\ hc.convergiu = padrao.convergiu

\* Both runs have returned after a move, and the stochastic one made a draw
\* in its last scan.
C7_Witness ==
    /\ hc.pc = "return" /\ padrao.pc = "return"
    /\ hc.estocastico /\ ~padrao.estocastico
    /\ Len(hc.historico) >= 2
    /\ Len(hc.sorteios) >= 1
    /\ padrao.sorteios = <<>>

\* C8: the fitness executar returns is the best entry of the history it
\* returns and the fitness of the solution it returns.
C8_RetornaMelhor ==
    hc.pc = "return" =>
        /\ \A i \in 1..Len(hc.historico) :
              ~EstritamenteMelhor(hc.historico[i], hc.fitness_atual, hc.maximizar)
        /\ hc.fitness_atual = Fitness(hc.funcao_fitness, hc.solucao_atual)

\* The first index of fs that holds a fitness none of fs is strictly better than.
PrimeiroMelhor(fs, maximizar) ==
    CHOOSE k \in 1..Len(fs) :
        /\ \A j \in 1..Len(fs) : ~EstritamenteMelhor(fs[j], fs[k], maximizar)
        /\ \A j \in 1..(k - 1) : fs[j] # fs[k]

\* C9: in standard mode an iteration moves to the first neighbour of best
\* fitness when that fitness is strictly better than fitness_atual, and
\* appends it to the history; otherwise executar returns with the solution,
\* the fitness and the history as they were.
C9_MelhorVizinhoOuFim ==
    [][(Iterou /\ ~hc.estocastico)
       => LET viz == hc'.vizinhos
              fs == FitnessDe(hc, viz)
          IN IF /\ viz # <<>>
                /\ EstritamenteMelhor(fs[PrimeiroMelhor(fs, hc.maximizar)],
                                      hc.fitness_atual, hc.maximizar)
             THEN LET k == PrimeiroMelhor(fs, hc.maximizar)
                  IN /\ hc'.pc = "fim_iteracao"
                     /\ ~hc'.convergiu
                     /\ hc'.solucao_atual = viz[k]
                     /\ hc'.fitness_atual = fs[k]
                     /\ hc'.historico = Append(hc.historico, fs[k])
             ELSE /\ hc'.pc = "return"
                  /\ hc'.convergiu
                  /\ hc'.solucao_atual = hc.solucao_atual
                  /\ hc'.fitness_atual = hc.fitness_atual
                  /\ hc'.historico = hc.historico]_vars

\* A standard run moved to the first of several neighbours of the same, best
\* fitness.
C9_Witness ==
    /\ ~hc.estocastico
    /\ hc.pc = "fim_iteracao"
    /\ Len(hc.vizinhos) >= 2
    /\ \E j \in 2..Len(hc.vizinhos) :
          /\ hc.vizinhos[j] # hc.vizinhos[1]
          /\ Fitness(hc.funcao_fitness, hc.vizinhos[j])
               = Fitness(hc.funcao_fitness, hc.vizinhos[1])
    /\ hc.solucao_atual = hc.vizinhos[1]
    /\ Len(hc.historico) >= 2

\* The neighbours among the first n of the scan that are not strictly better
\* than the best fitness tracked when they are scanned.
NaoMelhores(fitness_atual, fs, n, maximizar) ==
    {k \in 1..n :
        ~EstritamenteMelhor(fs[k], MelhorAte(fitness_atual, fs, k - 1, maximizar),
                            maximizar)}

\* C10: in stochastic mode a scan makes one draw for each neighbour it
\* evaluates that is not strictly better than the best tracked so far.  A draw
\* below probabilidade_pior is the last draw and is made for the last
\* neighbour evaluated: the run moves to that neighbour, whatever was tracked
\* before, and its fitness becomes fitness_atual and the next entry of the
\* history.  When no draw is below probabilidade_pior every neighbour is
\* evaluated.  No step takes an entry out of the history, and the solution
\* changes only by a move to a neighbour of the iteration.
C10_AceitaPiorEPara ==
    [][/\ (Iterou /\ hc.estocastico)
          => LET viz == hc'.vizinhos
                 fs == FitnessDe(hc, viz)
                 n == hc'.avaliados
                 ds == hc'.sorteios
                 nm == NaoMelhores(hc.fitness_atual, fs, n, hc.maximizar)
             IN /\ n =< Len(viz)
                /\ Len(ds) = Cardinality(nm)
                /\ \A j \in 1..Len(ds) :
                      ds[j]
                      => /\ j = Len(ds)
                         /\ n \in nm
                         /\ hc'.pc = "fim_iteracao"
                         /\ hc'.solucao_atual = viz[n]
                         /\ hc'.fitness_atual = fs[n]
                         /\ hc'.historico = Append(hc.historico, fs[n])
                /\ (\A j \in 1..Len(ds) : ~ds[j])
                      => n = Len(viz)
       /\ SubSeq(hc'.historico, 1, Len(hc.historico)) = hc.historico
       /\ hc'.solucao_atual # hc.solucao_atual
          => /\ Iterou
             /\ \E k \in 1..Len(hc'.vizinhos) : hc'.vizinhos[k] = hc'.solucao_atual
      ]_vars

\* A stochastic scan tracked an improving neighbour, then accepted a neighbour
\* worse than the fitness before the scan and left a later neighbour
\* unevaluated.
C10_Witness ==
    /\ hc.estocastico
    /\ hc.pc = "fim_iteracao"
    /\ hc.avaliados < Len(hc.vizinhos)
    /\ hc.avaliados >= 2
    /\ \E j \in 1..(hc.avaliados - 1) :
          EstritamenteMelhor(Fitness(hc.funcao_fitness, hc.vizinhos[j]),
                             hc.historico[Len(hc.historico) - 1], hc.maximizar)
    /\ hc.solucao_atual = hc.vizinhos[hc.avaliados]
    /\ EstritamenteMelhor(hc.historico[Len(hc.historico) - 1],
                          hc.fitness_atual, hc.maximizar)

====
